---- MODULE Spec2Model ----
(***************************************************************************)
(* After-school activities backend (Express + MongoDB).                    *)
(*                                                                         *)
(* The model follows the POST /orders and PUT /lessons/:id handlers of     *)
(* src/unnamed/part_000 (the same text as src/server.js lines 270-582).    *)
(* The shared state is the document store: the "lessons" collection and    *)
(* the "orders" collection.  Every request runs as its own asynchronous    *)
(* handler; the handlers interleave at each `await`, that is at each store *)
(* call, and a store call itself is atomic at the store.  One action of    *)
(* the model is one store call of one request together with the            *)
(* synchronous handler code that follows it up to the next store call.     *)
(***************************************************************************)
EXTENDS Integers, Sequences, FiniteSets, TLC

(***************************************************************************)
(* Bounds of the model.                                                    *)
(***************************************************************************)
\* Number of requests (POST /orders or PUT /lessons/:id) in one behaviour.
NumReqs == 2
\* Largest number of seats a lesson holds after the initial load.
MaxSpaces == 2
\* Total number of store calls that fail in one behaviour.
MaxFaults == 3
\* Number of hexadecimal characters of an identifier string (24 at the store).
IdLen == 2

(***************************************************************************)
(* Program constants.                                                      *)
(***************************************************************************)
\* executeWithRetry(fn, retries = 3, delay = 1000)
DefaultRetries == 3
DefaultDelay == 1000
\* /^[A-Za-z\s'-]{2,}$/
MinNameLen == 2
\* phoneDigits.length < 8
MinPhoneDigits == 8

Reqs == 1..NumReqs

(***************************************************************************)
(* Characters and strings.  A string is a sequence of one-character        *)
(* strings, so that the regular expressions of the handlers can be         *)
(* evaluated character by character.                                       *)
(***************************************************************************)
UpperHex == {"A", "B", "C", "D", "E", "F"}
LowerHex == {"a", "b", "c", "d", "e", "f"}
Digits == {"0", "1", "2", "3", "4", "5", "6", "7", "8", "9"}
Letters == UpperHex \cup LowerHex \cup {"J", "o", "h", "n"}
Whitespace == {" "}
NameChars == Letters \cup Whitespace \cup {"'", "-"}

\* String.prototype.toLowerCase on one hexadecimal character.
LowerChar(c) ==
  CASE c = "A" -> "a" [] c = "B" -> "b" [] c = "C" -> "c"
    [] c = "D" -> "d" [] c = "E" -> "e" [] c = "F" -> "f"
    [] OTHER -> c

\* s repeated n times.
RECURSIVE Repeat(_, _)
Repeat(s, n) == IF n = 0 THEN <<>> ELSE s \o Repeat(s, n - 1)

\* The characters of s that are in set keep, in order.
RECURSIVE Filter(_, _)
Filter(s, keep) ==
  IF s = <<>> THEN <<>>
  ELSE (IF Head(s) \in keep THEN <<Head(s)>> ELSE <<>>) \o Filter(Tail(s), keep)

RECURSIVE TrimLeft(_)
TrimLeft(s) ==
  IF s # <<>> /\ Head(s) \in Whitespace THEN TrimLeft(Tail(s)) ELSE s

RECURSIVE TrimRight(_)
TrimRight(s) ==
  IF s # <<>> /\ s[Len(s)] \in Whitespace
  THEN TrimRight(SubSeq(s, 1, Len(s) - 1)) ELSE s

\* String.prototype.trim
Trim(s) == TrimRight(TrimLeft(s))

(***************************************************************************)
(* JSON values of a request body.  A value is tagged with its JavaScript   *)
(* type: t = "undef" (the field is missing), "str", "num" or "arr".        *)
(***************************************************************************)
Undef == [t |-> "undef", v |-> <<>>]
Str(s) == [t |-> "str", v |-> s]
Num(n) == [t |-> "num", v |-> <<n>>]
Arr(a) == [t |-> "arr", v |-> a]

(***************************************************************************)
(* Identifiers.  The store's identifier (ObjectId) is written on the wire  *)
(* as IdLen hexadecimal characters; `new ObjectId(s)` accepts either case  *)
(* and throws on anything else, and toString() writes lower case.          *)
(***************************************************************************)
IsHexString(s) ==
  Len(s) = IdLen /\ \A i \in 1..Len(s) : s[i] \in UpperHex \cup LowerHex \cup Digits

\* new ObjectId(s) for an s that IsHexString: the identifier, kept in its
\* canonical (lower-case) writing.
ObjectId(s) == [i \in 1..Len(s) |-> LowerChar(s[i])]

\* ObjectId.prototype.toString: the canonical writing.
ToHexString(oid) == oid

IdA == Repeat(<<"a">>, IdLen)
IdB == Repeat(<<"b">>, IdLen)
\* The lessons that the initial load created.
LessonIds == {IdA, IdB}

\* Identifier strings that requests carry: the two lessons, lesson a written
\* in upper case, a well-formed identifier of no lesson, a malformed one.
WireA == IdA
WireB == IdB
WireUpperA == Repeat(<<"A">>, IdLen)
WireNone == Repeat(<<"c">>, IdLen)
WireBad == Repeat(<<"-">>, IdLen)
WireIds == {WireA, WireB, WireUpperA, WireNone, WireBad}

(***************************************************************************)
(* Request bodies.                                                         *)
(***************************************************************************)
NameJo == <<" ", "J", "o", " ">>
NameJ == <<"J">>
NameJohn123 == <<"J", "o", "h", "n", "1", "2", "3">>
Names == {Str(NameJo), Str(NameJ), Str(NameJohn123), Undef, Num(12)}

PhoneGood == <<"(", "5", "5", "5", ")", " ", "1", "2", "3", "-", "4", "5", "6", "7">>
PhoneShort == <<"1", "2", "3", "4">>
Phones == {Str(PhoneGood), Str(PhoneShort), Undef, Num(12345678)}

\* One line of an order: {lessonId, quantity}.
Line(id, q) == [lessonId |-> id, quantity |-> q]
\* Quantities of a one-line order for lesson a: negative, zero, and from one
\* seat to one more than a lesson ever holds after the initial load.
Quantities == -1..(MaxSpaces + 1)
\* One-line lists: every quantity for lesson a, one seat under every other
\* identifier string.
SingleLines ==
  {Line(WireA, q) : q \in Quantities} \cup {Line(id, 1) : id \in WireIds}
\* Two-line lists: the two lessons (also the same lesson twice), each line
\* for one seat or for more seats than a lesson holds.
PairLines == {Line(id, q) : id \in {WireA, WireB}, q \in {1, MaxSpaces + 1}}
LessonLists ==
  {Undef, Arr(<<>>)}
    \cup {Arr(<<l>>) : l \in SingleLines}
    \cup {Arr(<<l1, l2>>) : l1 \in PairLines, l2 \in PairLines}

OrderBody(n, p, ls) == [name |-> n, phone |-> p, lessons |-> ls]
\* Every list under a valid name and phone, and every name and phone under
\* the empty list.
OrderBodies ==
  {OrderBody(Str(NameJo), Str(PhoneGood), ls) : ls \in LessonLists}
    \cup {OrderBody(n, p, Arr(<<>>)) : n \in Names, p \in Phones}

\* The body of PUT /lessons/:id with the :id of the path.  Every body also
\* sets a field other than spaces, so that $set is never empty.
UpdateBody(id, sp) == [id |-> id, spaces |-> sp, _id |-> Undef]
\* A body that also carries an _id field.
UpdateBodyWithId(id, sp, newId) == [id |-> id, spaces |-> sp, _id |-> Str(newId)]
SpacesValues == {Undef, Num(-1), Num(0), Num(MaxSpaces), Str(<<"2">>)}
UpdateBodies ==
  {UpdateBody(id, sp) : id \in {WireA, WireBad}, sp \in SpacesValues}
    \cup {UpdateBody(id, Num(0)) : id \in WireIds}
    \cup {UpdateBodyWithId(WireA, sp, WireB) : sp \in {Num(-1), Num(0)}}

(***************************************************************************)
(* State.                                                                  *)
(***************************************************************************)
VARIABLES
  lessons,          \* the "lessons" collection: identifier -> document
  orders,           \* the "orders" collection, in insertion order
  kind,             \* per request: "none", "order" (POST /orders), "update"
  body,             \* per request: the request body (and :id of a PUT)
  pc,               \* per request: the store call the handler awaits
  existingLessons,  \* per request: the result of the batch lookup
  idx,              \* per request: the line the for-loop is at
  attempt,          \* per request: i of the running executeWithRetry
  delay,            \* per request: delay of the running executeWithRetry
  resp,             \* per request: the response sent
  log,              \* per request: the store calls carried out so far
  before,           \* per request: the collections when the request arrived
  faults            \* store calls that have failed so far

vars == <<lessons, orders, kind, body, pc, existingLessons, idx, attempt,
          delay, resp, log, before, faults>>

\* A response: the HTTP status, the kind of error (section 7 of the
\* specification names the kinds), the lesson identifier that an error message
\* names, the orderId of a 201, and the document of a 200.
Response(status, error, lessonId, orderId) ==
  [status |-> status, error |-> error, lessonId |-> lessonId,
   orderId |-> orderId, value |-> <<>>]
NoResp == Response(0, "none", <<>>, 0)

\* One entry of a request's log: a store call that was carried out ("find",
\* "inc", "insert", "update") and the line of the order it serves.
Entry(op, line) == [op |-> op, line |-> line]

\* The store's default ordering of the lessons.
StoreOrder == <<IdA, IdB>>

Init ==
  /\ lessons \in [LessonIds -> [spaces : 1..MaxSpaces]]
  /\ orders = <<>>
  /\ kind = [r \in Reqs |-> "none"]
  /\ body = [r \in Reqs |-> Undef]
  /\ pc = [r \in Reqs |-> "idle"]
  /\ existingLessons = [r \in Reqs |-> <<>>]
  /\ idx = [r \in Reqs |-> 0]
  /\ attempt = [r \in Reqs |-> 0]
  /\ delay = [r \in Reqs |-> 0]
  /\ resp = [r \in Reqs |-> NoResp]
  /\ log = [r \in Reqs |-> <<>>]
  /\ before = [r \in Reqs |-> [lessons |-> lessons, orders |-> 0]]
  /\ faults = 0

(***************************************************************************)
(* Validation of an order request (synchronous).                           *)
(***************************************************************************)
\* /^[A-Za-z\s'-]{2,}$/.test(s)
NameRegexTest(s) == Len(s) >= MinNameLen /\ \A i \in 1..Len(s) : s[i] \in NameChars

\* !name || !/^[A-Za-z\s'-]{2,}$/.test(name.trim()), for a missing or string name
InvalidName(name) ==
  \/ name.t = "undef"
  \/ name.t = "str" /\ (name.v = <<>> \/ ~NameRegexTest(Trim(name.v)))

\* phone ? phone.replace(/\D/g, '') : '', for a missing or string phone
PhoneDigits(phone) == IF phone.t = "str" THEN Filter(phone.v, Digits) ELSE <<>>

\* !Array.isArray(lessons) || lessons.length === 0
NoLessonsSelected(ls) == ls.t # "arr" \/ Len(ls.v) = 0

\* lessons.map(l => new ObjectId(l.lessonId)) throws on a malformed identifier.
ThrowsInvalidId(ls) == \E i \in 1..Len(ls.v) : ~IsHexString(ls.v[i].lessonId)

\* lessons.map(l => new ObjectId(l.lessonId))
LessonIdsOf(ls) == [i \in 1..Len(ls.v) |-> ObjectId(ls.v[i].lessonId)]

(***************************************************************************)
(* The store's primitives.                                                 *)
(***************************************************************************)
RECURSIVE SelectIds(_, _, _)
SelectIds(coll, order, ids) ==
  IF order = <<>> THEN <<>>
  ELSE (IF Head(order) \in ids
        THEN <<[_id |-> Head(order), spaces |-> coll[Head(order)].spaces]>>
        ELSE <<>>) \o SelectIds(coll, Tail(order), ids)

\* collection("lessons").find({ _id: { $in: ids } }).toArray()
FindIn(coll, ids) ==
  SelectIds(coll, StoreOrder, {ids[i] : i \in 1..Len(ids)} \cap DOMAIN coll)

\* collection("lessons").updateOne({ _id: oid }, { $inc: { spaces: -q } })
IncSpaces(coll, oid, q) ==
  IF oid \in DOMAIN coll THEN [coll EXCEPT ![oid].spaces = @ - q] ELSE coll

\* InsertOne that replaces the documents of the collection.
InsertOneReplacing(coll, doc) == <<doc>>

\* collection("orders").insertOne(order)
InsertOne(coll, doc) == Append(coll, doc)

(***************************************************************************)
(* executeWithRetry(fn, retries = 3, delay = 1000).  One attempt of fn is  *)
(* one store call.  After a failed attempt i the wrapper waits `delay` and *)
(* doubles it when i < retries - 1, and otherwise throws the error to the  *)
(* handler, whose catch block answers with `failure`.                      *)
(***************************************************************************)
\* The handler sends its response and ends.
Finish(r, response) ==
  /\ pc' = [pc EXCEPT ![r] = "done"]
  /\ resp' = [resp EXCEPT ![r] = response]

\* The handler calls executeWithRetry and awaits store call `call`.
Await(r, call) ==
  /\ pc' = [pc EXCEPT ![r] = call]
  /\ attempt' = [attempt EXCEPT ![r] = 0]
  /\ delay' = [delay EXCEPT ![r] = DefaultDelay]

\* catch (err) { ... res.status(500).json({ error: "Failed to ..." }) }
ServerError == Response(500, "ServerError", <<>>, 0)

\* RetryOrThrow that never gives up: the failed call is tried again whatever
\* the number of attempts made.
RetryForever(r, failure) ==
  UNCHANGED <<attempt, delay, pc, resp>>

\* The catch block of executeWithRetry after attempt number attempt[r] failed.
RetryOrThrow(r, failure) ==
  IF attempt[r] < DefaultRetries - 1
  THEN /\ attempt' = [attempt EXCEPT ![r] = @ + 1]
       /\ delay' = [delay EXCEPT ![r] = @ * 2]
       /\ UNCHANGED <<pc, resp>>
  ELSE /\ Finish(r, failure)
       /\ UNCHANGED <<attempt, delay>>

\* A store call of request r fails (the store cannot be reached): nothing is
\* read or written.
StoreCallFails(r, call) ==
  /\ pc[r] = call
  /\ faults < MaxFaults
  /\ faults' = faults + 1
  /\ RetryOrThrow(r, ServerError)
  /\ UNCHANGED <<lessons, orders, kind, body, existingLessons, idx, log, before>>

(***************************************************************************)
(* POST /orders                                                            *)
(***************************************************************************)
\* existingLessons.find(l => l._id.toString() === lessonId): the positions of
\* the documents that match.
Matching(found, lessonId) ==
  {i \in 1..Len(found) : ToHexString(found[i]._id) = lessonId}

\* !lessonFound || lessonFound.spaces < orderLesson.quantity
LineFails(found, line) ==
  LET m == Matching(found, line.lessonId)
  IN  m = {} \/ found[CHOOSE i \in m : \A j \in m : i <= j].spaces < line.quantity

\* ForLoop with the check's `return` lost: a line that fails the check is
\* skipped and the loop continues with the next line.
RECURSIVE NextServable(_, _, _)
NextServable(found, list, i) ==
  IF i > Len(list) \/ ~LineFails(found, list[i]) THEN i
  ELSE NextServable(found, list, i + 1)

ForLoopContinues(r, i, found) ==
  LET list == body[r].lessons.v
      j == NextServable(found, list, i)
  IN  /\ idx' = [idx EXCEPT ![r] = j]
      /\ IF j > Len(list) THEN Await(r, "insert") ELSE Await(r, "decrement")
      /\ UNCHANGED resp

\* ForLoop that leaves the loop one line early.
ForLoopOneShort(r, i, found) ==
  LET list == body[r].lessons.v
  IN  /\ idx' = [idx EXCEPT ![r] = i]
      /\ IF i >= Len(list)
         THEN Await(r, "insert") /\ UNCHANGED resp
         ELSE IF LineFails(found, list[i])
              THEN /\ Finish(r, Response(400, "InsufficientSpaces", list[i].lessonId, 0))
                   /\ UNCHANGED <<attempt, delay>>
              ELSE Await(r, "decrement") /\ UNCHANGED resp

\* ForLoop without the `return` before res.status(400): the response is sent
\* and the loop goes on with the decrement of the line.
ForLoopNoReturn(r, i, found) ==
  LET list == body[r].lessons.v
  IN  /\ idx' = [idx EXCEPT ![r] = i]
      /\ IF i > Len(list)
         THEN Await(r, "insert") /\ UNCHANGED resp
         ELSE /\ Await(r, "decrement")
              /\ resp' = IF LineFails(found, list[i])
                         THEN [resp EXCEPT ![r] =
                                 Response(400, "InsufficientSpaces", list[i].lessonId, 0)]
                         ELSE resp

\* ForLoop that checks line i against the lessons as the store holds them now
\* instead of the documents of the lookup.
ForLoopFresh(r, i, found) ==
  LET list == body[r].lessons.v
      fresh == FindIn(lessons, LessonIdsOf(body[r].lessons))
  IN  /\ idx' = [idx EXCEPT ![r] = i]
      /\ IF i > Len(list)
         THEN Await(r, "insert") /\ UNCHANGED resp
         ELSE IF LineFails(fresh, list[i])
              THEN /\ Finish(r, Response(400, "InsufficientSpaces", list[i].lessonId, 0))
                   /\ UNCHANGED <<attempt, delay>>
              ELSE Await(r, "decrement") /\ UNCHANGED resp

\* The for-loop from line i on, up to the next store call: the check of line
\* i and the decrement issued for it, or the order insert after the last line.
ForLoop(r, i, found) ==
  LET list == body[r].lessons.v
  IN  /\ idx' = [idx EXCEPT ![r] = i]
      /\ IF i > Len(list)
         THEN Await(r, "insert") /\ UNCHANGED resp
         ELSE IF LineFails(found, list[i])
              THEN /\ Finish(r, Response(400, "InsufficientSpaces", list[i].lessonId, 0))
                   /\ UNCHANGED <<attempt, delay>>
              ELSE Await(r, "decrement") /\ UNCHANGED resp

\* PostOrders with the phone checked before the name.
PostOrdersPhoneFirst(r, b) ==
  /\ pc[r] = "idle"
  /\ IF r = 1 THEN TRUE ELSE pc[r - 1] # "idle"
  /\ kind' = [kind EXCEPT ![r] = "order"]
  /\ body' = [body EXCEPT ![r] = b]
  /\ before' = [before EXCEPT ![r] = [lessons |-> lessons, orders |-> Len(orders)]]
  /\ IF b.phone.t = "num" \/ b.name.t = "num"
     THEN Finish(r, ServerError) /\ UNCHANGED <<attempt, delay>>
     ELSE IF Len(PhoneDigits(b.phone)) < MinPhoneDigits
     THEN /\ Finish(r, Response(400, "InvalidPhone", <<>>, 0))
          /\ UNCHANGED <<attempt, delay>>
     ELSE IF InvalidName(b.name)
     THEN /\ Finish(r, Response(400, "InvalidName", <<>>, 0))
          /\ UNCHANGED <<attempt, delay>>
     ELSE IF NoLessonsSelected(b.lessons)
     THEN /\ Finish(r, Response(400, "NoLessonsSelected", <<>>, 0))
          /\ UNCHANGED <<attempt, delay>>
     ELSE IF ThrowsInvalidId(b.lessons)
     THEN /\ \E includes \in BOOLEAN :
               Finish(r, IF includes
                         THEN Response(400, "InvalidIdentifierFormat", <<>>, 0)
                         ELSE ServerError)
          /\ UNCHANGED <<attempt, delay>>
     ELSE Await(r, "lookup") /\ UNCHANGED resp
  /\ UNCHANGED <<lessons, orders, existingLessons, idx, log, faults>>

\* The handler up to its first store call: the validation of name, phone and
\* lesson list, and the parsing of the identifiers.  Requests are numbered in
\* the order in which they arrive.
PostOrders(r, b) ==
  /\ pc[r] = "idle"
  /\ IF r = 1 THEN TRUE ELSE pc[r - 1] # "idle"
  /\ kind' = [kind EXCEPT ![r] = "order"]
  /\ body' = [body EXCEPT ![r] = b]
  /\ before' = [before EXCEPT ![r] = [lessons |-> lessons, orders |-> Len(orders)]]
  /\ IF b.name.t = "num"
     THEN Finish(r, ServerError) /\ UNCHANGED <<attempt, delay>>
     ELSE IF InvalidName(b.name)
     THEN /\ Finish(r, Response(400, "InvalidName", <<>>, 0))
          /\ UNCHANGED <<attempt, delay>>
     ELSE IF b.phone.t = "num"
     THEN Finish(r, ServerError) /\ UNCHANGED <<attempt, delay>>
     ELSE IF Len(PhoneDigits(b.phone)) < MinPhoneDigits
     THEN /\ Finish(r, Response(400, "InvalidPhone", <<>>, 0))
          /\ UNCHANGED <<attempt, delay>>
     ELSE IF NoLessonsSelected(b.lessons)
     THEN /\ Finish(r, Response(400, "NoLessonsSelected", <<>>, 0))
          /\ UNCHANGED <<attempt, delay>>
     ELSE IF ThrowsInvalidId(b.lessons)
     THEN \* err.message.includes("invalid ObjectId"): the text of the error
          \* is the driver's, and either answer can be sent.
          /\ \E includes \in BOOLEAN :
               Finish(r, IF includes
                         THEN Response(400, "InvalidIdentifierFormat", <<>>, 0)
                         ELSE ServerError)
          /\ UNCHANGED <<attempt, delay>>
     ELSE Await(r, "lookup") /\ UNCHANGED resp
  /\ UNCHANGED <<lessons, orders, existingLessons, idx, log, faults>>

\* The batch lookup succeeds: the count check, then the loop's first line.
LookupOk(r) ==
  /\ pc[r] = "lookup"
  /\ LET found == FindIn(lessons, LessonIdsOf(body[r].lessons))
     IN  /\ existingLessons' = [existingLessons EXCEPT ![r] = found]
         /\ IF Len(found) # Len(body[r].lessons.v)
            THEN /\ Finish(r, Response(400, "LessonNotFound", <<>>, 0))
                 /\ UNCHANGED <<idx, attempt, delay>>
            ELSE ForLoop(r, 1, found)
  /\ log' = [log EXCEPT ![r] = Append(@, Entry("find", 0))]
  /\ UNCHANGED <<lessons, orders, kind, body, before, faults>>

LookupFails(r) == StoreCallFails(r, "lookup")

\* DecrementOk with compensation: when the next line fails the check, the
\* quantities of the lines decremented so far are added back.
RECURSIVE AddBack(_, _, _)
AddBack(coll, list, n) ==
  IF n = 0 THEN coll
  ELSE AddBack(IncSpaces(coll, ObjectId(list[n].lessonId), -list[n].quantity),
               list, n - 1)

DecrementOkCompensating(r) ==
  /\ pc[r] = "decrement"
  /\ LET list == body[r].lessons.v
         line == list[idx[r]]
         stops == /\ idx[r] < Len(list)
                  /\ LineFails(existingLessons[r], list[idx[r] + 1])
         applied == IncSpaces(lessons, ObjectId(line.lessonId), line.quantity)
     IN  lessons' = IF stops THEN AddBack(applied, list, idx[r]) ELSE applied
  /\ ForLoop(r, idx[r] + 1, existingLessons[r])
  /\ log' = [log EXCEPT ![r] = Append(@, Entry("inc", idx[r]))]
  /\ UNCHANGED <<orders, kind, body, existingLessons, before, faults>>

\* DecrementOk as a read-modify-write: the handler subtracts the quantity
\* from the spaces it read in the lookup and writes the result with $set.
DecrementOkFromSnapshot(r) ==
  /\ pc[r] = "decrement"
  /\ LET line == body[r].lessons.v[idx[r]]
         m == Matching(existingLessons[r], line.lessonId)
         read == existingLessons[r][CHOOSE i \in m : TRUE].spaces
     IN  lessons' = [lessons EXCEPT
                       ![ObjectId(line.lessonId)].spaces = read - line.quantity]
  /\ ForLoop(r, idx[r] + 1, existingLessons[r])
  /\ log' = [log EXCEPT ![r] = Append(@, Entry("inc", idx[r]))]
  /\ UNCHANGED <<orders, kind, body, existingLessons, before, faults>>

\* The decrement of line idx[r] succeeds: the loop goes on to the next line.
DecrementOk(r) ==
  /\ pc[r] = "decrement"
  /\ LET line == body[r].lessons.v[idx[r]]
     IN  lessons' = IncSpaces(lessons, ObjectId(line.lessonId), line.quantity)
  /\ ForLoop(r, idx[r] + 1, existingLessons[r])
  /\ log' = [log EXCEPT ![r] = Append(@, Entry("inc", idx[r]))]
  /\ UNCHANGED <<orders, kind, body, existingLessons, before, faults>>

DecrementFails(r) == StoreCallFails(r, "decrement")

\* const order = { name: name.trim(), phone: phoneDigits, lessons, date, status }
OrderDocument(b) ==
  [name |-> Trim(b.name.v), phone |-> PhoneDigits(b.phone),
   lessons |-> b.lessons.v, status |-> "confirmed"]

\* The order insert succeeds: 201 with the generated identifier, which is the
\* document's position in the collection.
InsertOk(r) ==
  /\ pc[r] = "insert"
  /\ orders' = InsertOne(orders, OrderDocument(body[r]))
  /\ Finish(r, Response(201, "none", <<>>, Len(orders) + 1))
  /\ log' = [log EXCEPT ![r] = Append(@, Entry("insert", 0))]
  /\ UNCHANGED <<lessons, kind, body, existingLessons, idx, attempt, delay,
                 before, faults>>

InsertFails(r) == StoreCallFails(r, "insert")

(***************************************************************************)
(* PUT /lessons/:id                                                        *)
(***************************************************************************)
\* updates.spaces !== undefined &&
\*   (typeof updates.spaces !== "number" || updates.spaces < 0)
InvalidSpaces(sp) == sp.t # "undef" /\ (sp.t # "num" \/ sp.v[1] < 0)

\* SetFields with { upsert: true }: a lesson is created when none has the
\* identifier.
SetFieldsUpsert(coll, oid, b) ==
  IF b.spaces.t = "num"
  THEN [l \in DOMAIN coll \cup {oid} |->
          [spaces |-> IF l = oid THEN b.spaces.v[1] ELSE coll[l].spaces]]
  ELSE coll

\* findOneAndUpdate({ _id: oid }, { $set: updates }, { returnDocument: "after" }):
\* the collection afterwards.  The handlers have deleted _id from updates, and
\* of the fields that are left the model keeps spaces.
SetFields(coll, oid, b) ==
  IF oid \in DOMAIN coll /\ b.spaces.t = "num"
  THEN [coll EXCEPT ![oid].spaces = b.spaces.v[1]]
  ELSE coll

\* delete updates._id
DeleteId(b) == [b EXCEPT !._id = Undef]

\* The handler up to its store call: the validation of spaces, and the
\* removal of _id from the fields to set.
PutLesson(r, b) ==
  /\ pc[r] = "idle"
  /\ IF r = 1 THEN TRUE ELSE pc[r - 1] # "idle"
  /\ kind' = [kind EXCEPT ![r] = "update"]
  /\ body' = [body EXCEPT ![r] = IF InvalidSpaces(b.spaces) THEN b ELSE DeleteId(b)]
  /\ before' = [before EXCEPT ![r] = [lessons |-> lessons, orders |-> Len(orders)]]
  /\ IF InvalidSpaces(b.spaces)
     THEN /\ Finish(r, Response(400, "InvalidInput", <<>>, 0))
          /\ UNCHANGED <<attempt, delay>>
     ELSE Await(r, "update") /\ UNCHANGED resp
  /\ UNCHANGED <<lessons, orders, existingLessons, idx, log, faults>>

\* fn evaluates new ObjectId(req.params.id) inside executeWithRetry: on a
\* malformed identifier every attempt throws before the store is called.
UpdateThrows(r) ==
  /\ pc[r] = "update"
  /\ ~IsHexString(body[r].id)
  /\ \E includes \in BOOLEAN :
       RetryOrThrow(r, IF includes
                       THEN Response(400, "InvalidIdentifierFormat", <<>>, 0)
                       ELSE ServerError)
  /\ UNCHANGED <<lessons, orders, kind, body, existingLessons, idx, log,
                 before, faults>>

\* findOneAndUpdate succeeds: 404 when no lesson has the identifier, else the
\* document after the update.
UpdateOk(r) ==
  /\ pc[r] = "update"
  /\ IsHexString(body[r].id)
  /\ LET oid == ObjectId(body[r].id)
     IN  /\ lessons' = SetFields(lessons, oid, body[r])
         /\ IF oid \in DOMAIN lessons
            THEN Finish(r, [Response(200, "none", <<>>, 0)
                              EXCEPT !.value = <<[_id |-> oid,
                                                  spaces |-> lessons'[oid].spaces]>>])
            ELSE Finish(r, Response(404, "NotFound", <<>>, 0))
  /\ log' = [log EXCEPT ![r] = Append(@, Entry("update", 0))]
  /\ UNCHANGED <<orders, kind, body, existingLessons, idx, attempt, delay,
                 before, faults>>

UpdateFails(r) ==
  pc[r] = "update" /\ IsHexString(body[r].id) /\ StoreCallFails(r, "update")

Next ==
  \E r \in Reqs :
    \/ \E b \in OrderBodies : PostOrders(r, b)
    \/ LookupOk(r)
    \/ LookupFails(r)
    \/ DecrementOk(r)
    \/ DecrementFails(r)
    \/ InsertOk(r)
    \/ InsertFails(r)
    \/ \E b \in UpdateBodies : PutLesson(r, b)
    \/ UpdateThrows(r)
    \/ UpdateOk(r)
    \/ UpdateFails(r)

Spec == Init /\ [][Next]_vars

(***************************************************************************)
(* Sequential, fault-free runs: a request arrives only when no other       *)
(* request is in flight, and every store call succeeds.                    *)
(***************************************************************************)
Quiet == \A r \in Reqs : pc[r] \in {"idle", "done"}

NextSeq ==
  \E r \in Reqs :
    \/ Quiet /\ \E b \in OrderBodies : PostOrders(r, b)
    \/ LookupOk(r)
    \/ DecrementOk(r)
    \/ InsertOk(r)
    \/ Quiet /\ \E b \in UpdateBodies : PutLesson(r, b)
    \/ UpdateThrows(r)
    \/ UpdateOk(r)

SpecSeq == Init /\ [][NextSeq]_vars

(***************************************************************************)
(* executeWithRetry(fn, retries, delay) on its own, for any arguments and  *)
(* any fn.  The call of request slot Caller is followed statement by       *)
(* statement: attempt[r] is the loop's i, delay[r] the variable delay, and *)
(* log[r] lists, in order, every invocation of fn with its outcome         *)
(* ("return" with the value, "throw" with the error) and every wait (with  *)
(* its milliseconds).                                                      *)
(***************************************************************************)
\* Largest value of the argument `retries`.
MaxRetries == 4
\* Values of the argument `retries`: a negative one, zero and the positive ones.
RetryCounts == -1..MaxRetries
\* Values of the argument `delay`, in milliseconds.
Delays == {0, 1, 250, DefaultDelay}
\* The values fn can return and the errors it can throw.
FnResults == {1, 2}
FnErrors == {1, 2}
\* The request slot that makes the call.
Caller == 1

\* The promise of executeWithRetry settles: how is "returned" or "thrown".
Settled(how, x) == [Response(0, how, <<>>, 0) EXCEPT !.value = <<x>>]

\* executeWithRetry with a do-while loop: fn is invoked before the first test
\* of i < n.
ExecuteWithRetryDoWhile(r, n, d) ==
  /\ pc[r] = "idle"
  /\ kind' = [kind EXCEPT ![r] = "retry"]
  /\ body' = [body EXCEPT ![r] = [retries |-> n, delay |-> d]]
  /\ attempt' = [attempt EXCEPT ![r] = 0]
  /\ delay' = [delay EXCEPT ![r] = d]
  /\ pc' = [pc EXCEPT ![r] = "fn"]
  /\ UNCHANGED <<resp, lessons, orders, existingLessons, idx, log, before, faults>>

\* executeWithRetry(fn, n, d) is called: let i = 0, and the loop test i < n.
\* With n <= 0 the loop body never runs and the function returns undefined.
ExecuteWithRetry(r, n, d) ==
  /\ pc[r] = "idle"
  /\ kind' = [kind EXCEPT ![r] = "retry"]
  /\ body' = [body EXCEPT ![r] = [retries |-> n, delay |-> d]]
  /\ attempt' = [attempt EXCEPT ![r] = 0]
  /\ delay' = [delay EXCEPT ![r] = d]
  /\ IF 0 < n
     THEN pc' = [pc EXCEPT ![r] = "fn"] /\ UNCHANGED resp
     ELSE Finish(r, Response(0, "returned", <<>>, 0))
  /\ UNCHANGED <<lessons, orders, existingLessons, idx, log, before, faults>>

\* return await fn(): fn resolves with v.
FnReturns(r, v) ==
  /\ pc[r] = "fn"
  /\ log' = [log EXCEPT ![r] = Append(@, Entry("return", v))]
  /\ Finish(r, Settled("returned", v))
  /\ UNCHANGED <<lessons, orders, kind, body, existingLessons, idx, attempt,
                 delay, before, faults>>

\* FnThrows that rethrows the error of the first invocation.
FnThrowsFirst(r, e) ==
  /\ pc[r] = "fn"
  /\ log' = [log EXCEPT ![r] = Append(@, Entry("throw", e))]
  /\ IF attempt[r] < body[r].retries - 1
     THEN pc' = [pc EXCEPT ![r] = "setTimeout"] /\ UNCHANGED resp
     ELSE Finish(r, Settled("thrown", log'[r][1].line))
  /\ UNCHANGED <<lessons, orders, kind, body, existingLessons, idx, attempt,
                 delay, before, faults>>

\* fn rejects with e: catch (error) { if (i < retries - 1) { await new
\* Promise(res => setTimeout(res, delay)) ... } else { throw error } }
FnThrows(r, e) ==
  /\ pc[r] = "fn"
  /\ log' = [log EXCEPT ![r] = Append(@, Entry("throw", e))]
  /\ IF attempt[r] < body[r].retries - 1
     THEN pc' = [pc EXCEPT ![r] = "setTimeout"] /\ UNCHANGED resp
     ELSE Finish(r, Settled("thrown", e))
  /\ UNCHANGED <<lessons, orders, kind, body, existingLessons, idx, attempt,
                 delay, before, faults>>

\* TimeoutFires with a delay that grows by the argument instead of doubling.
TimeoutFiresLinear(r) ==
  /\ pc[r] = "setTimeout"
  /\ log' = [log EXCEPT ![r] = Append(@, Entry("wait", delay[r]))]
  /\ delay' = [delay EXCEPT ![r] = @ + body[r].delay]
  /\ attempt' = [attempt EXCEPT ![r] = @ + 1]
  /\ pc' = [pc EXCEPT ![r] = "fn"]
  /\ UNCHANGED <<lessons, orders, kind, body, existingLessons, idx, resp,
                 before, faults>>

\* The timer of `delay` milliseconds fires: delay *= 2, i++, and the loop
\* test, which holds because i was less than retries - 1.
TimeoutFires(r) ==
  /\ pc[r] = "setTimeout"
  /\ log' = [log EXCEPT ![r] = Append(@, Entry("wait", delay[r]))]
  /\ delay' = [delay EXCEPT ![r] = @ * 2]
  /\ attempt' = [attempt EXCEPT ![r] = @ + 1]
  /\ pc' = [pc EXCEPT ![r] = "fn"]
  /\ UNCHANGED <<lessons, orders, kind, body, existingLessons, idx, resp,
                 before, faults>>

NextRetry ==
  \/ \E n \in RetryCounts, d \in Delays : ExecuteWithRetry(Caller, n, d)
  \/ \E v \in FnResults : FnReturns(Caller, v)
  \/ \E e \in FnErrors : FnThrows(Caller, e)
  \/ TimeoutFires(Caller)

SpecRetry == Init /\ [][NextRetry]_vars

(***************************************************************************)
(* The handlers of the variant of src/server.js lines 584-797: no retry    *)
(* wrapper, PUT /lessons/:id without validation of spaces, POST /orders    *)
(* that checks only that name, phone and the list are there and that       *)
(* inserts the order without touching the lessons.                         *)
(***************************************************************************)
\* !x for a value of a request body.
Falsy(x) ==
  \/ x.t = "undef"
  \/ x.t = "str" /\ x.v = <<>>
  \/ x.t = "num" /\ x.v[1] = 0

\* Bodies of this variant's requests: phone and spaces, which are stored as
\* they come, are strings and numbers respectively (or missing).
SimpleOrderBodies == {b \in OrderBodies : b.phone.t # "num"}
SimpleUpdateBodies == {b \in UpdateBodies : b.spaces.t # "str"}

\* catch (err) { res.status(500).json({ error: err.message }) } on a failed
\* store call: there is no second attempt.
StoreCallFailsSimple(r, call) ==
  /\ pc[r] = call
  /\ faults < MaxFaults
  /\ faults' = faults + 1
  /\ Finish(r, ServerError)
  /\ UNCHANGED <<lessons, orders, kind, body, existingLessons, idx, attempt,
                 delay, log, before>>

\* PUT /lessons/:id up to its store call: delete updates._id, and new
\* ObjectId(req.params.id), which throws into the catch block.
PutLessonSimple(r, b) ==
  /\ pc[r] = "idle"
  /\ IF r = 1 THEN TRUE ELSE pc[r - 1] # "idle"
  /\ kind' = [kind EXCEPT ![r] = "update"]
  /\ body' = [body EXCEPT ![r] = DeleteId(b)]
  /\ before' = [before EXCEPT ![r] = [lessons |-> lessons, orders |-> Len(orders)]]
  /\ IF ~IsHexString(b.id)
     THEN Finish(r, ServerError)
     ELSE pc' = [pc EXCEPT ![r] = "update"] /\ UNCHANGED resp
  /\ UNCHANGED <<lessons, orders, existingLessons, idx, attempt, delay, log, faults>>

UpdateFailsSimple(r) == StoreCallFailsSimple(r, "update")

\* const order = { name: name.trim(), phone, lessons, date, status }
OrderDocumentSimple(b) ==
  [name |-> Trim(b.name.v), phone |-> b.phone.v,
   lessons |-> b.lessons.v, status |-> "confirmed"]

\* POST /orders up to its store call: !name || !phone || !Array.isArray(lessons),
\* then name.trim(), which throws a TypeError on a number.
PostOrdersSimple(r, b) ==
  /\ pc[r] = "idle"
  /\ IF r = 1 THEN TRUE ELSE pc[r - 1] # "idle"
  /\ kind' = [kind EXCEPT ![r] = "order"]
  /\ body' = [body EXCEPT ![r] = b]
  /\ before' = [before EXCEPT ![r] = [lessons |-> lessons, orders |-> Len(orders)]]
  /\ IF Falsy(b.name) \/ Falsy(b.phone) \/ b.lessons.t # "arr"
     THEN Finish(r, Response(400, "InvalidInput", <<>>, 0))
     ELSE IF b.name.t = "num"
     THEN Finish(r, ServerError)
     ELSE pc' = [pc EXCEPT ![r] = "insert"] /\ UNCHANGED resp
  /\ UNCHANGED <<lessons, orders, existingLessons, idx, attempt, delay, log, faults>>

\* insertOne succeeds: 201 with the generated identifier.
InsertOkSimple(r) ==
  /\ pc[r] = "insert"
  /\ orders' = InsertOne(orders, OrderDocumentSimple(body[r]))
  /\ Finish(r, Response(201, "none", <<>>, Len(orders) + 1))
  /\ log' = [log EXCEPT ![r] = Append(@, Entry("insert", 0))]
  /\ UNCHANGED <<lessons, kind, body, existingLessons, idx, attempt, delay,
                 before, faults>>

InsertFailsSimple(r) == StoreCallFailsSimple(r, "insert")

NextSimple ==
  \E r \in Reqs :
    \/ \E b \in SimpleUpdateBodies : PutLessonSimple(r, b)
    \/ UpdateOk(r)
    \/ UpdateFailsSimple(r)
    \/ \E b \in SimpleOrderBodies : PostOrdersSimple(r, b)
    \/ InsertOkSimple(r)
    \/ InsertFailsSimple(r)

SpecSimple == Init /\ [][NextSimple]_vars

(***************************************************************************)
(* The handlers of the variant of src/server.js lines 1-268, which assumes *)
(* that seats were taken when a lesson was added to the cart: no retry     *)
(* wrapper, PUT /lessons/:id with the validation of spaces, POST /orders   *)
(* with the lookup and the check of every line but without any decrement.  *)
(***************************************************************************)
\* PUT /lessons/:id up to its store call.  new ObjectId(req.params.id) is an
\* argument of findOneAndUpdate and throws into the catch block.
PutLessonCart(r, b) ==
  /\ pc[r] = "idle"
  /\ IF r = 1 THEN TRUE ELSE pc[r - 1] # "idle"
  /\ kind' = [kind EXCEPT ![r] = "update"]
  /\ body' = [body EXCEPT ![r] = IF InvalidSpaces(b.spaces) THEN b ELSE DeleteId(b)]
  /\ before' = [before EXCEPT ![r] = [lessons |-> lessons, orders |-> Len(orders)]]
  /\ IF InvalidSpaces(b.spaces)
     THEN Finish(r, Response(400, "InvalidInput", <<>>, 0))
     ELSE IF ~IsHexString(b.id)
     THEN \E includes \in BOOLEAN :
            Finish(r, IF includes
                      THEN Response(400, "InvalidIdentifierFormat", <<>>, 0)
                      ELSE ServerError)
     ELSE pc' = [pc EXCEPT ![r] = "update"] /\ UNCHANGED resp
  /\ UNCHANGED <<lessons, orders, existingLessons, idx, attempt, delay, log, faults>>

UpdateFailsCart(r) == StoreCallFailsSimple(r, "update")

\* POST /orders up to its first store call: the validation of name, phone and
\* list, and the parsing of the identifiers.
PostOrdersCart(r, b) ==
  /\ pc[r] = "idle"
  /\ IF r = 1 THEN TRUE ELSE pc[r - 1] # "idle"
  /\ kind' = [kind EXCEPT ![r] = "order"]
  /\ body' = [body EXCEPT ![r] = b]
  /\ before' = [before EXCEPT ![r] = [lessons |-> lessons, orders |-> Len(orders)]]
  /\ IF b.name.t = "num"
     THEN Finish(r, ServerError)
     ELSE IF InvalidName(b.name)
     THEN Finish(r, Response(400, "InvalidName", <<>>, 0))
     ELSE IF b.phone.t = "num"
     THEN Finish(r, ServerError)
     ELSE IF Len(PhoneDigits(b.phone)) < MinPhoneDigits
     THEN Finish(r, Response(400, "InvalidPhone", <<>>, 0))
     ELSE IF NoLessonsSelected(b.lessons)
     THEN Finish(r, Response(400, "NoLessonsSelected", <<>>, 0))
     ELSE IF ThrowsInvalidId(b.lessons)
     THEN \E includes \in BOOLEAN :
            Finish(r, IF includes
                      THEN Response(400, "InvalidIdentifierFormat", <<>>, 0)
                      ELSE ServerError)
     ELSE pc' = [pc EXCEPT ![r] = "lookup"] /\ UNCHANGED resp
  /\ UNCHANGED <<lessons, orders, existingLessons, idx, attempt, delay, log, faults>>

\* The first line of list, from line i on, that fails the check against the
\* documents found; Len(list) + 1 when there is none.
RECURSIVE FirstFailing(_, _, _)
FirstFailing(found, list, i) ==
  IF i > Len(list) \/ LineFails(found, list[i]) THEN i
  ELSE FirstFailing(found, list, i + 1)

\* The batch lookup succeeds: the count check, then the loop that checks
\* every line, and the order insert is next.  No lesson is written.
LookupOkCart(r) ==
  /\ pc[r] = "lookup"
  /\ LET found == FindIn(lessons, LessonIdsOf(body[r].lessons))
         list == body[r].lessons.v
         k == FirstFailing(found, list, 1)
     IN  /\ existingLessons' = [existingLessons EXCEPT ![r] = found]
         /\ IF Len(found) # Len(list)
            THEN Finish(r, Response(400, "LessonNotFound", <<>>, 0))
            ELSE IF k <= Len(list)
            THEN Finish(r, Response(400, "InsufficientSpaces", list[k].lessonId, 0))
            ELSE pc' = [pc EXCEPT ![r] = "insert"] /\ UNCHANGED resp
  /\ log' = [log EXCEPT ![r] = Append(@, Entry("find", 0))]
  /\ UNCHANGED <<lessons, orders, kind, body, idx, attempt, delay, before, faults>>

LookupFailsCart(r) == StoreCallFailsSimple(r, "lookup")

InsertFailsCart(r) == StoreCallFailsSimple(r, "insert")

NextCart ==
  \E r \in Reqs :
    \/ \E b \in UpdateBodies : PutLessonCart(r, b)
    \/ UpdateOk(r)
    \/ UpdateFailsCart(r)
    \/ \E b \in OrderBodies : PostOrdersCart(r, b)
    \/ LookupOkCart(r)
    \/ LookupFailsCart(r)
    \/ InsertOk(r)
    \/ InsertFailsCart(r)

SpecCart == Init /\ [][NextCart]_vars

(***************************************************************************)
(* GET /lessons and GET /search of src/unnamed/part_000.  body[r] holds    *)
(* the query string's parameters and the values the handler computes from  *)
(* them before its store call (skip and limit, or searchQuery).            *)
(***************************************************************************)
\* Number('x') of a value that is not a number; parseInt of a string without
\* leading digits.
NaN == [t |-> "nan", v |-> <<>>]

\* The value of a decimal digit.
DigitValue(c) ==
  CASE c = "0" -> 0 [] c = "1" -> 1 [] c = "2" -> 2 [] c = "3" -> 3
    [] c = "4" -> 4 [] c = "5" -> 5 [] c = "6" -> 6 [] c = "7" -> 7
    [] c = "8" -> 8 [] c = "9" -> 9

\* The longest prefix of s that is made of digits.
RECURSIVE DigitPrefix(_)
DigitPrefix(s) ==
  IF s # <<>> /\ Head(s) \in Digits THEN <<Head(s)>> \o DigitPrefix(Tail(s)) ELSE <<>>

\* The number that a string of digits writes.
RECURSIVE Decimal(_)
Decimal(s) ==
  IF s = <<>> THEN 0 ELSE 10 * Decimal(SubSeq(s, 1, Len(s) - 1)) + DigitValue(s[Len(s)])

\* parseInt(x) of a missing parameter or of a string without sign: leading
\* white space is skipped and the digits up to the first other character read.
ParseInt(x) ==
  IF x.t = "str" /\ DigitPrefix(TrimLeft(x.v)) # <<>>
  THEN Num(Decimal(DigitPrefix(TrimLeft(x.v))))
  ELSE NaN

\* x || d for the result of parseInt: NaN and 0 are falsy.
OrElse(x, d) == IF x.t = "num" /\ x.v[1] # 0 THEN x.v[1] ELSE d

\* The query parameters page and limit of the requests.
PageParams == {Undef, Str(<<"1">>), Str(<<"2">>), Str(<<"a", "b", "c">>)}
LimitParams ==
  {Undef, Str(<<"0">>), Str(<<"1">>), Str(<<"2">>), Str(<<"1", "x">>)}

\* collection.find(): every document, in the store's default ordering.
FindAll(coll) == SelectIds(coll, StoreOrder, DOMAIN coll)

\* cursor.skip(n) and cursor.limit(n) for n >= 0 and n >= 1.
Skip(docs, n) == SubSeq(docs, n + 1, Len(docs))
Limit(docs, n) == SubSeq(docs, 1, IF n < Len(docs) THEN n ELSE Len(docs))

\* GET /lessons up to its store call: page, limit and skip.
GetLessons(r, page, limit) ==
  /\ pc[r] = "idle"
  /\ IF r = 1 THEN TRUE ELSE pc[r - 1] # "idle"
  /\ kind' = [kind EXCEPT ![r] = "list"]
  /\ LET p == OrElse(ParseInt(page), 1)
         l == OrElse(ParseInt(limit), 10)
     IN  body' = [body EXCEPT ![r] = [page |-> page, limit |-> limit,
                                      skipped |-> (p - 1) * l, limited |-> l]]
  /\ before' = [before EXCEPT ![r] = [lessons |-> lessons, orders |-> Len(orders)]]
  /\ Await(r, "list") /\ UNCHANGED resp
  /\ UNCHANGED <<lessons, orders, existingLessons, idx, log, faults>>

\* find().skip(skip).limit(limit).toArray() succeeds: 200 with the documents.
ListOk(r) ==
  /\ pc[r] = "list"
  /\ Finish(r, [Response(200, "none", <<>>, 0) EXCEPT
                  !.value = Limit(Skip(FindAll(lessons), body[r].skipped),
                                  body[r].limited)])
  /\ log' = [log EXCEPT ![r] = Append(@, Entry("list", 0))]
  /\ UNCHANGED <<lessons, orders, kind, body, existingLessons, idx, attempt,
                 delay, before, faults>>

ListFails(r) == StoreCallFails(r, "list")

\* isNaN(query) of a string: Number(query) is a number when the string,
\* trimmed, is empty or a string of digits (the strings of the model carry no
\* sign, point or exponent).
IsNaN(s) == Trim(s) # <<>> /\ \E i \in 1..Len(Trim(s)) : Trim(s)[i] \notin Digits

\* Number(query) for a string that is not NaN.
ToNumber(s) == Decimal(Trim(s))

\* The q parameters of the requests: missing, empty, given twice (an array),
\* a digit, a space, one letter, a word.
QueryParams ==
  {Undef, Str(<<>>), Arr(<<>>), Str(<<"2">>), Str(<<" ">>), Str(<<"a">>),
   Str(<<"J", "o">>)}

\* searchQuery: the conditions of the filter, $or-ed when more than one.
\* "text" is { $text: { $search: query } }.
SearchQuery(query) ==
  IF ~IsNaN(query)
  THEN {[on |-> "text", arg |-> query],
        [on |-> "price", arg |-> <<ToNumber(query)>>],
        [on |-> "spaces", arg |-> <<ToNumber(query)>>]}
  ELSE {[on |-> "text", arg |-> query]}

\* GET /search up to its store call: the check of q and the filter.
GetSearch(r, q) ==
  /\ pc[r] = "idle"
  /\ IF r = 1 THEN TRUE ELSE pc[r - 1] # "idle"
  /\ kind' = [kind EXCEPT ![r] = "search"]
  /\ before' = [before EXCEPT ![r] = [lessons |-> lessons, orders |-> Len(orders)]]
  /\ IF Falsy(q) \/ q.t # "str"
     THEN /\ body' = [body EXCEPT ![r] = [q |-> q, searchQuery |-> {}]]
          /\ Finish(r, Response(400, "InvalidQuery", <<>>, 0))
          /\ UNCHANGED <<attempt, delay>>
     ELSE /\ body' = [body EXCEPT ![r] = [q |-> q, searchQuery |-> SearchQuery(q.v)]]
          /\ Await(r, "search") /\ UNCHANGED resp
  /\ UNCHANGED <<lessons, orders, existingLessons, idx, log, faults>>

\* find(searchQuery).toArray() succeeds: 200 with the documents that match,
\* which the model does not compute.
SearchOk(r) ==
  /\ pc[r] = "search"
  /\ Finish(r, Response(200, "none", <<>>, 0))
  /\ log' = [log EXCEPT ![r] = Append(@, Entry("search", 0))]
  /\ UNCHANGED <<lessons, orders, kind, body, existingLessons, idx, attempt,
                 delay, before, faults>>

SearchFails(r) == StoreCallFails(r, "search")

NextQuery ==
  \E r \in Reqs :
    \/ \E page \in PageParams, limit \in LimitParams : GetLessons(r, page, limit)
    \/ ListOk(r)
    \/ ListFails(r)
    \/ \E q \in QueryParams : GetSearch(r, q)
    \/ SearchOk(r)
    \/ SearchFails(r)

SpecQuery == Init /\ [][NextQuery]_vars

(***************************************************************************)
(* The four kinds of request of src/unnamed/part_000 together, under the   *)
(* assumption that every store call that a handler awaits eventually       *)
(* returns or fails (and that a timer of the retry wrapper fires): a step  *)
(* of a handler that stays possible is eventually taken.  The requests     *)
(* carry a few bodies of each kind.                                        *)
(***************************************************************************)
LiveOrderBodies ==
  {OrderBody(Str(NameJo), Str(PhoneGood), ls) :
     ls \in {Arr(<<>>), Arr(<<Line(WireA, 1)>>), Arr(<<Line(WireBad, 1)>>),
             Arr(<<Line(WireA, 1), Line(WireB, MaxSpaces + 1)>>),
             Arr(<<Line(WireA, 1), Line(WireB, 1)>>)}}
LiveUpdateBodies ==
  {UpdateBody(WireA, Num(0)), UpdateBody(WireA, Num(-1)), UpdateBody(WireBad, Num(0))}

\* The steps of request r's handler after its start.
HandlerStep(r) ==
  \/ LookupOk(r) \/ LookupFails(r)
  \/ DecrementOk(r) \/ DecrementFails(r)
  \/ InsertOk(r) \/ InsertFails(r)
  \/ UpdateThrows(r) \/ UpdateOk(r) \/ UpdateFails(r)
  \/ ListOk(r) \/ ListFails(r)
  \/ SearchOk(r) \/ SearchFails(r)

NextLive ==
  \E r \in Reqs :
    \/ \E b \in LiveOrderBodies : PostOrders(r, b)
    \/ \E b \in LiveUpdateBodies : PutLesson(r, b)
    \/ \E limit \in {Undef, Str(<<"1">>)} : GetLessons(r, Undef, limit)
    \/ \E q \in {Undef, Str(<<"a">>)} : GetSearch(r, q)
    \/ HandlerStep(r)

SpecLive ==
  Init /\ [][NextLive]_vars /\ \A r \in Reqs : WF_vars(HandlerStep(r))

(***************************************************************************)
(* Order placement of src/unnamed/part_000 with a store whose              *)
(* acknowledgement can be lost: the store carries out a write, and the     *)
(* call fails at the client all the same (the connection times out before  *)
(* the reply arrives).  executeWithRetry cannot tell this failure from one *)
(* that left the store untouched, and calls the function again.            *)
(***************************************************************************)
\* updateOne(..., { $inc: ... }) is applied at the store and reported failed.
DecrementLost(r) ==
  /\ pc[r] = "decrement"
  /\ faults < MaxFaults
  /\ faults' = faults + 1
  /\ LET line == body[r].lessons.v[idx[r]]
     IN  lessons' = IncSpaces(lessons, ObjectId(line.lessonId), line.quantity)
  /\ log' = [log EXCEPT ![r] = Append(@, Entry("inc", idx[r]))]
  /\ RetryOrThrow(r, ServerError)
  /\ UNCHANGED <<orders, kind, body, existingLessons, idx, before>>

\* insertOne(order) is applied at the store and reported failed.
InsertLost(r) ==
  /\ pc[r] = "insert"
  /\ faults < MaxFaults
  /\ faults' = faults + 1
  /\ orders' = InsertOne(orders, OrderDocument(body[r]))
  /\ log' = [log EXCEPT ![r] = Append(@, Entry("insert", 0))]
  /\ RetryOrThrow(r, ServerError)
  /\ UNCHANGED <<lessons, kind, body, existingLessons, idx, before>>

NextLostAck ==
  \E r \in Reqs :
    \/ \E b \in OrderBodies : PostOrders(r, b)
    \/ LookupOk(r)
    \/ LookupFails(r)
    \/ DecrementOk(r)
    \/ DecrementFails(r)
    \/ DecrementLost(r)
    \/ InsertOk(r)
    \/ InsertFails(r)
    \/ InsertLost(r)

SpecLostAck == Init /\ [][NextLostAck]_vars

(***************************************************************************)
(* Vocabulary of the properties.                                           *)
(***************************************************************************)
Done(r) == pc[r] = "done"
IsOrder(r) == kind[r] = "order"
OrderLines(r) == body[r].lessons.v

\* The lines, in order, whose decrement request r has applied.
RECURSIVE IncLines(_)
IncLines(l) ==
  IF l = <<>> THEN <<>>
  ELSE (IF Head(l).op = "inc" THEN <<Head(l).line>> ELSE <<>>) \o IncLines(Tail(l))

Issued(r, op) == \E i \in 1..Len(log[r]) : log[r][i].op = op

\* No lesson update has been applied.
NoUpdateApplied == \A r \in Reqs : ~Issued(r, "update")

\* A name that the order workflow accepts: a string that, trimmed, has at
\* least two characters, all of them letters, spaces, hyphens or apostrophes.
GoodName(n) ==
  /\ n.t = "str"
  /\ Len(Trim(n.v)) >= 2
  /\ \A i \in 1..Len(Trim(n.v)) : Trim(n.v)[i] \in Letters \cup {" ", "-", "'"}

\* A phone that the order workflow accepts: a string with at least 8 digits.
GoodPhone(p) ==
  p.t = "str" /\ Cardinality({i \in 1..Len(p.v) : p.v[i] \in Digits}) >= 8

\* A non-empty list of lines.
GoodList(ls) == ls.t = "arr" /\ ls.v # <<>>

\* The lesson that an identifier string denotes, if it is well formed.
WellFormed(id) == IsHexString(id)
Denotes(id, l) == WellFormed(id) /\ ObjectId(id) = l

\* A request with valid name, phone and list whose identifiers are well formed.
ValidOrder(r) ==
  /\ IsOrder(r)
  /\ GoodName(body[r].name) /\ GoodPhone(body[r].phone) /\ GoodList(body[r].lessons)
  /\ \A i \in 1..Len(OrderLines(r)) : WellFormed(OrderLines(r)[i].lessonId)

\* ... all of whose identifiers denote lessons of the store.
AllExist(r) ==
  \A i \in 1..Len(OrderLines(r)) :
    \E l \in LessonIds : Denotes(OrderLines(r)[i].lessonId, l)

\* ... all of whose identifiers are lesson identifiers as the store writes them.
AllExistAsWritten(r) ==
  \A i \in 1..Len(OrderLines(r)) :
    \E l \in LessonIds : OrderLines(r)[i].lessonId = ToHexString(l)

\* Sum of the quantities of the lines of list ls that reference lesson l.
RECURSIVE QuantityFor(_, _)
QuantityFor(ls, l) ==
  IF ls = <<>> THEN 0
  ELSE (IF Denotes(Head(ls).lessonId, l) THEN Head(ls).quantity ELSE 0)
         + QuantityFor(Tail(ls), l)

\* Sum over all stored orders of the quantities that reference lesson l.
RECURSIVE OrderedFor(_, _)
OrderedFor(os, l) ==
  IF os = <<>> THEN 0 ELSE QuantityFor(Head(os).lessons, l) + OrderedFor(Tail(os), l)

\* The request that arrived last.
Latest(r) == pc[r] # "idle" /\ (IF r = NumReqs THEN TRUE ELSE pc[r + 1] = "idle")

(***************************************************************************)
(* C1.  In every reachable state every lesson's spaces is >= 0.            *)
(* The handlers break it: the check of a line reads the spaces of the      *)
(* batch lookup, and the decrement that follows is unconditional.          *)
(***************************************************************************)
C1_SpacesNeverNegative == \A l \in LessonIds : lessons[l].spaces >= 0

(***************************************************************************)
(* C2.  When NumReqs order requests that each ask for one seat of lesson a *)
(* run concurrently, without store failure, against lesson a holding       *)
(* NumReqs - 1 seats, exactly NumReqs - 1 are answered 201, exactly one is *)
(* answered InsufficientSpaces, and the lesson ends with 0 seats.          *)
(***************************************************************************)
RaceBody == OrderBody(Str(NameJo), Str(PhoneGood), Arr(<<Line(WireA, 1)>>))

C2_RaceLeavesOneOut ==
  (/\ faults = 0
   /\ \A r \in Reqs :
        /\ Done(r) /\ IsOrder(r) /\ body[r] = RaceBody
        /\ before[r].lessons[IdA].spaces = NumReqs - 1)
  => /\ Cardinality({r \in Reqs : resp[r].status = 201}) = NumReqs - 1
     /\ Cardinality({r \in Reqs : resp[r].error = "InsufficientSpaces"}) = 1
     /\ lessons[IdA].spaces = 0

(***************************************************************************)
(* C3.  In every state in which no order request is in flight and no       *)
(* lesson update has been applied, each lesson's spaces has dropped since  *)
(* the initial load by the sum of the quantities of the stored order lines *)
(* that reference it.  (Request 1 arrives first, so before[1] holds the    *)
(* collection of the initial load as long as no update was applied.)       *)
(***************************************************************************)
C3_OrdersMatchSeats ==
  (Quiet /\ NoUpdateApplied)
  => \A l \in LessonIds :
       before[1].lessons[l].spaces - lessons[l].spaces = OrderedFor(orders, l)

(***************************************************************************)
(* C4.  Run alone and without store failure, an order request with valid   *)
(* name, phone and a non-empty list of existing lessons (each identifier   *)
(* written as the store writes it), each line asking for no more than the  *)
(* lesson's spaces when the request arrives, is                            *)
(* answered 201, lowers each referenced lesson's spaces by the requested   *)
(* quantity, changes no other lesson and adds exactly one order record,    *)
(* which holds the request's lines.                                        *)
(***************************************************************************)
C4_ValidOrderIsServed ==
  \A r \in Reqs :
    (/\ Done(r) /\ Latest(r) /\ ValidOrder(r) /\ AllExistAsWritten(r)
     /\ \A l \in LessonIds :
          QuantityFor(OrderLines(r), l) <= before[r].lessons[l].spaces
     /\ \A i \in 1..Len(OrderLines(r)) :
          OrderLines(r)[i].quantity
            <= before[r].lessons[ObjectId(OrderLines(r)[i].lessonId)].spaces)
    => /\ resp[r].status = 201
       /\ \A l \in LessonIds :
            lessons[l].spaces
              = before[r].lessons[l].spaces - QuantityFor(OrderLines(r), l)
       /\ Len(orders) = before[r].orders + 1
       /\ orders[Len(orders)].lessons = OrderLines(r)

(***************************************************************************)
(* C5.  Run alone and without store failure, an order request with a line  *)
(* that asks for more than its lesson's spaces is rejected, and no         *)
(* lesson's spaces changes and no order record is created.                 *)
(***************************************************************************)
C5_RejectionChangesNothing ==
  \A r \in Reqs :
    (/\ Done(r) /\ Latest(r) /\ IsOrder(r)
     /\ \E i \in 1..Len(OrderLines(r)) : \E l \in LessonIds :
          /\ Denotes(OrderLines(r)[i].lessonId, l)
          /\ OrderLines(r)[i].quantity > before[r].lessons[l].spaces)
    => /\ resp[r].status # 201
       /\ lessons = before[r].lessons
       /\ Len(orders) = before[r].orders

\* A step of request r's handler.
StepOf(r) == pc'[r] # pc[r] \/ attempt'[r] # attempt[r] \/ log'[r] # log[r]

\* 1, 2, ..., n
UpTo(n) == [i \in 1..n |-> i]

(***************************************************************************)
(* C6.  Order placement never compensates.  A step of an order request     *)
(* either leaves every lesson as it is or applies the decrement of one     *)
(* line, subtracting that line's quantity from that line's lesson and      *)
(* nothing else; no line is decremented twice; and a request that is       *)
(* answered with a failure (InsufficientSpaces on a later line, a store    *)
(* failure on a later decrement or on the insert) adds no order record,    *)
(* neither in its last step nor before.                                    *)
(***************************************************************************)
C6_NeverCompensates ==
  [][\A r \in Reqs :
       (IsOrder(r)' /\ StepOf(r)) =>
         LET lines == body'[r].lessons.v
             new == log'[r][Len(log'[r])]
         IN  /\ IF Len(log'[r]) > Len(log[r]) /\ new.op = "inc"
                THEN \A l \in LessonIds :
                       lessons'[l].spaces
                         = lessons[l].spaces
                             - (IF Denotes(lines[new.line].lessonId, l)
                                THEN lines[new.line].quantity ELSE 0)
                ELSE lessons' = lessons
             /\ IncLines(log'[r]) = UpTo(Len(IncLines(log'[r])))
             /\ resp'[r].status \notin {0, 201}
                  => /\ orders' = orders
                     /\ \A i \in 1..Len(log'[r]) : log'[r][i].op # "insert"]_vars

\* An order request was answered 500 after its first decrement, and with no
\* other request around the lesson is still decremented and no order stored.
C6_Witness ==
  \E r \in Reqs :
    /\ IsOrder(r) /\ Done(r) /\ resp[r].status = 500
    /\ IncLines(log[r]) # <<>>
    /\ \A s \in Reqs \ {r} : pc[s] = "idle"
    /\ \E l \in LessonIds :
         /\ Denotes(OrderLines(r)[1].lessonId, l)
         /\ OrderLines(r)[1].quantity > 0
         /\ lessons[l].spaces = before[r].lessons[l].spaces - OrderLines(r)[1].quantity
    /\ orders = <<>>

(***************************************************************************)
(* C7.  The lines of an order are processed in list order, and the         *)
(* workflow stops at the first line that fails the sufficiency check (the  *)
(* lesson's spaces as known from the lookup is less than the quantity):    *)
(* the error names that line's lesson identifier, and no decrement is      *)
(* issued for that line or a later one, and no order insert.               *)
(***************************************************************************)
\* Line i of request r fails the sufficiency check.
Short(r, i) ==
  ~\E j \in 1..Len(existingLessons[r]) :
      /\ existingLessons[r][j]._id = OrderLines(r)[i].lessonId
      /\ existingLessons[r][j].spaces >= OrderLines(r)[i].quantity

C7_StopsAtFirstShortLine ==
  \A r \in Reqs :
    IsOrder(r) =>
      LET n == Len(OrderLines(r))
          incs == IncLines(log[r])
      IN  /\ incs = UpTo(Len(incs))
          /\ \A i \in 1..Len(incs) : ~Short(r, i)
          /\ pc[r] = "decrement" => \A i \in 1..idx[r] : ~Short(r, i)
          /\ (pc[r] = "insert" \/ Issued(r, "insert")) => \A i \in 1..n : ~Short(r, i)
          /\ resp[r].error = "InsufficientSpaces" =>
               \E k \in 1..n :
                 /\ Short(r, k) /\ \A j \in 1..(k - 1) : ~Short(r, j)
                 /\ resp[r].lessonId = OrderLines(r)[k].lessonId
                 /\ incs = UpTo(k - 1)
                 /\ ~Issued(r, "insert")

\* A request was stopped at its second line, after the decrement of its first.
C7_Witness ==
  \E r \in Reqs :
    /\ IsOrder(r) /\ resp[r].error = "InsufficientSpaces"
    /\ IncLines(log[r]) = <<1>>
    /\ resp[r].lessonId = OrderLines(r)[2].lessonId

(***************************************************************************)
(* C8.  The order insert is issued only after the decrement of every line  *)
(* of the request has been applied, once each and in list order; every     *)
(* order record is the insert of one such request.                         *)
(***************************************************************************)
C8_InsertAfterAllDecrements ==
  /\ \A r \in Reqs :
       (IsOrder(r) /\ (pc[r] = "insert" \/ Issued(r, "insert") \/ resp[r].status = 201))
         => IncLines(log[r]) = UpTo(Len(OrderLines(r)))
  /\ Len(orders) = Cardinality({r \in Reqs : Issued(r, "insert")})

\* A two-line order was stored.
C8_Witness ==
  \E r \in Reqs :
    /\ IsOrder(r) /\ resp[r].status = 201 /\ Len(OrderLines(r)) = 2
    /\ orders[resp[r].orderId].lessons = OrderLines(r)

(***************************************************************************)
(* C9.  An order request that passes the validation of name, phone and     *)
(* list (and meets no store failure) fails with LessonNotFound exactly     *)
(* when one of its lines names an identifier that no lesson has.           *)
(***************************************************************************)
C9_NotFoundIffMissing ==
  \A r \in Reqs :
    (Done(r) /\ ValidOrder(r) /\ resp[r].status # 500)
      => (resp[r].error = "LessonNotFound" <=> ~AllExist(r))

(***************************************************************************)
(* C10.  An order request is checked for its name, then its phone, then    *)
(* its lesson list, then the existence of its lessons.  The step that      *)
(* rejects it with InvalidName, InvalidPhone, NoLessonsSelected or         *)
(* LessonNotFound changes neither collection, and the request has issued   *)
(* no decrement and no insert (and before LessonNotFound only the lookup). *)
(***************************************************************************)
Rejections == {"InvalidName", "InvalidPhone", "NoLessonsSelected", "LessonNotFound"}

C10_ValidationOrder ==
  [][\A r \in Reqs :
       (IsOrder(r)' /\ resp[r] = NoResp /\ resp'[r] # NoResp) =>
         LET b == body'[r]
             e == resp'[r].error
         IN  /\ (b.name.t # "num" /\ ~GoodName(b.name)) => e = "InvalidName"
             /\ (GoodName(b.name) /\ b.phone.t # "num" /\ ~GoodPhone(b.phone))
                  => e = "InvalidPhone"
             /\ (GoodName(b.name) /\ GoodPhone(b.phone) /\ ~GoodList(b.lessons))
                  => e = "NoLessonsSelected"
             /\ e = "InvalidName" => ~GoodName(b.name)
             /\ e = "InvalidPhone" => GoodName(b.name) /\ ~GoodPhone(b.phone)
             /\ e = "NoLessonsSelected"
                  => GoodName(b.name) /\ GoodPhone(b.phone) /\ ~GoodList(b.lessons)
             /\ e = "LessonNotFound"
                  => GoodName(b.name) /\ GoodPhone(b.phone) /\ GoodList(b.lessons)
             /\ e \in Rejections =>
                  /\ lessons' = lessons /\ orders' = orders
                  /\ resp'[r].status = 400
                  /\ log'[r] = IF e = "LessonNotFound"
                               THEN <<Entry("find", 0)>> ELSE <<>>]_vars

\* One request was rejected for a lesson that does not exist, another for its
\* phone although its list is empty too, while a lesson had been decremented.
C10_Witness ==
  \E r, s \in Reqs :
    /\ IsOrder(r) /\ resp[r].error = "LessonNotFound" /\ log[r] = <<Entry("find", 0)>>
    /\ IsOrder(s) /\ resp[s].error = "InvalidPhone" /\ body[s].lessons = Arr(<<>>)

(***************************************************************************)
(* C11.  Every line of every stored order asks for at least one seat, and  *)
(* an order request with a line whose quantity is 0 or negative is never   *)
(* answered 201.  The handler never looks at the sign of a quantity: a     *)
(* line passes the sufficiency check whenever spaces >= quantity.          *)
(***************************************************************************)
C11_QuantitiesPositive ==
  /\ \A k \in 1..Len(orders) : \A i \in 1..Len(orders[k].lessons) :
       orders[k].lessons[i].quantity >= 1
  /\ \A r \in Reqs :
       (IsOrder(r) /\ \E i \in 1..Len(OrderLines(r)) : OrderLines(r)[i].quantity < 1)
         => resp[r].status # 201

(***************************************************************************)
(* C12.  No step of an order request raises a lesson's spaces: after the   *)
(* step every lesson holds at most the spaces it held before.  A line with *)
(* a negative quantity passes the check and its $inc adds seats.           *)
(***************************************************************************)
C12_DecrementOnly ==
  [][\A r \in Reqs :
       (IsOrder(r)' /\ StepOf(r))
         => \A l \in LessonIds : lessons'[l].spaces <= lessons[l].spaces]_vars

(***************************************************************************)
(* Vocabulary of the properties of executeWithRetry.                       *)
(***************************************************************************)
\* The entries of log l whose op is in ops, in order.
RECURSIVE Only(_, _)
Only(l, ops) ==
  IF l = <<>> THEN <<>>
  ELSE (IF Head(l).op \in ops THEN <<Head(l)>> ELSE <<>>) \o Only(Tail(l), ops)

\* The invocations of fn and the waits of request slot r.
Invocations(r) == Only(log[r], {"return", "throw"})
Waits(r) == Only(log[r], {"wait"})

RECURSIVE SumOf(_)
SumOf(l) == IF l = <<>> THEN 0 ELSE Head(l).line + SumOf(Tail(l))

RECURSIVE Pow2(_)
Pow2(k) == IF k = 0 THEN 1 ELSE 2 * Pow2(k - 1)

\* A call of executeWithRetry with retries >= 1.
RetryCall(r) == kind[r] = "retry" /\ body[r].retries >= 1

(***************************************************************************)
(* C13.  executeWithRetry(fn, retries, delay) with retries >= 1 invokes fn *)
(* at most retries times; an invocation that returns is the last one, and  *)
(* its value is the result; the call throws only after exactly retries     *)
(* invocations that all failed, and it throws the error of the last one.   *)
(***************************************************************************)
C13_RetryAtMostRetriesTimes ==
  \A r \in Reqs :
    RetryCall(r) =>
      LET inv == Invocations(r)
          n == Len(inv)
      IN  /\ n <= body[r].retries
          /\ \A i \in 1..n : inv[i].op = "return" =>
               /\ i = n /\ Done(r)
               /\ resp[r].error = "returned" /\ resp[r].value = <<inv[i].line>>
          /\ Done(r) =>
               /\ n >= 1
               /\ resp[r].error \in {"returned", "thrown"}
               /\ resp[r].error = "returned" => inv[n].op = "return"
               /\ resp[r].error = "thrown" =>
                    /\ n = body[r].retries
                    /\ \A i \in 1..n : inv[i].op = "throw"
                    /\ resp[r].value = <<inv[n].line>>
          /\ ~Done(r) => \A i \in 1..n : inv[i].op = "throw"

\* A call with three attempts threw the error of its third invocation, which
\* is not the error of its first.
C13_Witness ==
  \E r \in Reqs :
    /\ RetryCall(r) /\ Done(r) /\ resp[r].error = "thrown"
    /\ body[r].retries = DefaultRetries /\ Len(Invocations(r)) = DefaultRetries
    /\ Invocations(r)[1].line # Invocations(r)[DefaultRetries].line
    /\ resp[r].value = <<Invocations(r)[DefaultRetries].line>>

(***************************************************************************)
(* C14.  In executeWithRetry(fn, retries, delay) the k-th wait lasts       *)
(* delay * 2^(k-1) milliseconds; a wait comes only directly after a failed *)
(* invocation and directly before the next invocation; every failed        *)
(* invocation but the last allowed one is followed by a wait, and nothing  *)
(* follows the last one; a call that fails retries times has waited        *)
(* retries - 1 times, 3000 ms in total with the default arguments.         *)
(***************************************************************************)
C14_BackoffDoubles ==
  \A r \in Reqs :
    RetryCall(r) =>
      LET l == log[r]
          w == Waits(r)
      IN  /\ \A k \in 1..Len(w) : w[k].line = body[r].delay * Pow2(k - 1)
          /\ \A i \in 1..Len(l) :
               /\ l[i].op = "wait" =>
                    /\ i > 1 /\ l[i - 1].op = "throw"
                    /\ i < Len(l) => l[i + 1].op \in {"return", "throw"}
               /\ (l[i].op = "throw" /\ i < Len(l)) => l[i + 1].op = "wait"
          /\ Done(r) => l[Len(l)].op # "wait"
          /\ Len(w) <= body[r].retries - 1
          /\ (Done(r) /\ resp[r].error = "thrown") =>
               /\ Len(w) = body[r].retries - 1
               /\ l[Len(l)].op = "throw"
               /\ (body[r].retries = DefaultRetries /\ body[r].delay = DefaultDelay)
                    => SumOf(w) = 3000

\* A call with four attempts and the default delay failed four times after
\* waits of 1000, 2000 and 4000 ms.
C14_Witness ==
  \E r \in Reqs :
    /\ RetryCall(r) /\ Done(r) /\ resp[r].error = "thrown"
    /\ body[r].retries = MaxRetries /\ body[r].delay = DefaultDelay
    /\ Len(Waits(r)) = MaxRetries - 1
    /\ Waits(r)[MaxRetries - 1].line = DefaultDelay * Pow2(MaxRetries - 2)

\* The kinds of validation failure (section 7 of the specification).
ValidationKinds ==
  {"InvalidInput", "InvalidName", "InvalidPhone", "NoLessonsSelected",
   "LessonNotFound", "InsufficientSpaces", "InvalidIdentifierFormat", "NotFound"}

\* Request r passed the checks of its fields and carries a malformed identifier.
MalformedId(r) ==
  CASE kind[r] = "update" ->
         ~InvalidSpaces(body[r].spaces) /\ ~WellFormed(body[r].id)
    [] kind[r] = "order" ->
         /\ GoodName(body[r].name) /\ GoodPhone(body[r].phone) /\ GoodList(body[r].lessons)
         /\ \E i \in 1..Len(OrderLines(r)) : ~WellFormed(OrderLines(r)[i].lessonId)
    [] OTHER -> FALSE

(***************************************************************************)
(* C15.  With no store failure at all, a request that ends in a validation *)
(* failure, or that carries a malformed identifier, ends with the retry    *)
(* wrapper's i at 0: nothing was attempted a second time.  PUT             *)
(* /lessons/:id breaks it: new ObjectId(req.params.id) is evaluated inside *)
(* the function handed to executeWithRetry.                                *)
(***************************************************************************)
C15_ValidationNotRetried ==
  \A r \in Reqs :
    (/\ faults = 0 /\ Done(r) /\ kind[r] \in {"order", "update"}
     /\ (resp[r].error \in ValidationKinds \/ MalformedId(r)))
    => attempt[r] = 0

(***************************************************************************)
(* C16.  A request whose identifiers are well formed is answered 500 only  *)
(* after a store call of it has failed DefaultRetries times.  POST /orders *)
(* breaks it: name.trim() and phone.replace() throw a TypeError on a       *)
(* number, and the catch block answers 500 before any store call.          *)
(***************************************************************************)
C16_ServerErrorOnlyAfterRetries ==
  \A r \in Reqs :
    (/\ Done(r) /\ kind[r] \in {"order", "update"}
     /\ resp[r].status = 500
     /\ kind[r] = "update" => WellFormed(body[r].id)
     /\ kind[r] = "order" =>
          \A i \in 1..Len(OrderLines(r)) : WellFormed(OrderLines(r)[i].lessonId))
    => /\ attempt[r] = DefaultRetries - 1
       /\ faults >= DefaultRetries

(***************************************************************************)
(* C17.  PUT /lessons/:id with a well-formed :id and a spaces field that   *)
(* is not a number >= 0 is answered 400 InvalidInput without an update     *)
(* being applied (a store failure is not an excuse: the check comes before *)
(* the store call), and the set                                            *)
(* of lesson identifiers never changes.  The handler of src/server.js      *)
(* lines 712-726 has no check of spaces and applies the update.            *)
(***************************************************************************)
C17_InvalidSpacesRejected ==
  /\ DOMAIN lessons = LessonIds
  /\ \A r \in Reqs :
       (/\ kind[r] = "update" /\ Done(r) /\ WellFormed(body[r].id)
        /\ body[r].spaces.t # "undef"
        /\ ~(body[r].spaces.t = "num" /\ body[r].spaces.v[1] >= 0))
       => /\ resp[r].status = 400 /\ resp[r].error = "InvalidInput"
          /\ ~Issued(r, "update")

(***************************************************************************)
(* C18.  No step changes the set of lesson identifiers, which is the set   *)
(* of the initial load.  A step of an update request changes no order; it  *)
(* changes a lesson only when its findOneAndUpdate is carried out, and     *)
(* then: if no lesson has the identifier, the answer is 404 NotFound and   *)
(* no lesson changes; otherwise the answer is 200 and the lesson with that *)
(* identifier takes the spaces of the body (when the body names spaces)    *)
(* while every other lesson stays as it is.                                *)
(***************************************************************************)
C18_UpdateFrame ==
  [][/\ DOMAIN lessons = LessonIds /\ DOMAIN lessons' = LessonIds
     /\ \A r \in Reqs :
          (kind'[r] = "update" /\ StepOf(r)) =>
            LET b == body'[r]
                applied == Len(log'[r]) > Len(log[r])
            IN  /\ orders' = orders
                /\ ~applied => lessons' = lessons
                /\ applied =>
                     IF \E l \in LessonIds : Denotes(b.id, l)
                     THEN /\ resp'[r].status = 200
                          /\ \A l \in LessonIds :
                               lessons'[l] =
                                 IF Denotes(b.id, l) /\ b.spaces.t = "num"
                                 THEN [lessons[l] EXCEPT !.spaces = b.spaces.v[1]]
                                 ELSE lessons[l]
                     ELSE /\ resp'[r].status = 404 /\ resp'[r].error = "NotFound"
                          /\ lessons' = lessons]_vars

\* One update was answered NotFound; another set the spaces of lesson a, which
\* held seats, to 0, and lesson b is as it was.
C18_Witness ==
  \E r, s \in Reqs :
    /\ kind[r] = "update" /\ resp[r].error = "NotFound" /\ Issued(r, "update")
    /\ kind[s] = "update" /\ resp[s].status = 200 /\ body[s].spaces = Num(0)
    /\ Denotes(body[s].id, IdA)
    /\ before[s].lessons[IdA].spaces > 0 /\ lessons[IdA].spaces = 0
    /\ lessons[IdB] = before[s].lessons[IdB]

(***************************************************************************)
(* C19.  Orders are immutable.  In every step the orders collection keeps  *)
(* every record it holds, at its place and with its fields; it changes     *)
(* only by one record appended in the step in which an order request that  *)
(* awaits its insert, all its lines decremented, is answered 201 with the  *)
(* identifier of the new record, which holds the request's lines.          *)
(***************************************************************************)
C19_OrdersImmutable ==
  [][/\ Len(orders') >= Len(orders)
     /\ SubSeq(orders', 1, Len(orders)) = orders
     /\ orders' # orders =>
          /\ Len(orders') = Len(orders) + 1
          /\ \E r \in Reqs :
               /\ IsOrder(r) /\ pc[r] = "insert" /\ pc'[r] = "done"
               /\ IncLines(log[r]) = UpTo(Len(OrderLines(r)))
               /\ resp'[r].status = 201 /\ resp'[r].orderId = Len(orders')
               /\ orders'[Len(orders')].lessons = OrderLines(r)
               /\ orders'[Len(orders')].status = "confirmed"]_vars

\* Two orders are stored, each under the identifier its request was given.
C19_Witness ==
  \E r, s \in Reqs :
    /\ IsOrder(r) /\ resp[r].status = 201 /\ resp[r].orderId = 1
    /\ IsOrder(s) /\ resp[s].status = 201 /\ resp[s].orderId = 2
    /\ Len(orders) = 2
    /\ orders[1].lessons = OrderLines(r) /\ orders[2].lessons = OrderLines(s)

(***************************************************************************)
(* C20.  Every stored order has status "confirmed", a name that is trimmed *)
(* and has at least 2 characters, all letters, spaces, hyphens or          *)
(* apostrophes, a phone of at least 8 characters, all digits, and a        *)
(* non-empty list that is the list of the request answered with the        *)
(* order's identifier.  The handler of src/server.js lines 745-765 checks  *)
(* only that name and phone are there and that lessons is an array, and    *)
(* stores the phone as it came.                                            *)
(***************************************************************************)
C20_StoredOrdersWellFormed ==
  \A k \in 1..Len(orders) :
    LET o == orders[k]
    IN  /\ o.status = "confirmed"
        /\ o.name = Trim(o.name) /\ Len(o.name) >= 2
        /\ \A i \in 1..Len(o.name) : o.name[i] \in Letters \cup {" ", "-", "'"}
        /\ Len(o.phone) >= 8
        /\ \A i \in 1..Len(o.phone) : o.phone[i] \in Digits
        /\ o.lessons # <<>>
        /\ \E r \in Reqs :
             /\ IsOrder(r) /\ resp[r].status = 201 /\ resp[r].orderId = k
             /\ o.lessons = OrderLines(r)

(***************************************************************************)
(* The order handler that assumes the seats were taken at add-to-cart time *)
(* (src/server.js lines 179-240) writes no lesson: no step of an order     *)
(* request changes the lessons collection, whatever the outcome; and a     *)
(* request with a line that asks for more than the spaces found by its     *)
(* lookup is not answered 201 and stores no order.                         *)
(***************************************************************************)
CartLeavesLessons ==
  [][\A r \in Reqs :
       (IsOrder(r)' /\ StepOf(r)) =>
         /\ lessons' = lessons
         /\ \A i \in 1..Len(log'[r]) : log'[r][i].op # "inc"
         /\ (\E i \in 1..Len(body'[r].lessons.v) :
               \E j \in 1..Len(existingLessons'[r]) :
                 /\ Denotes(body'[r].lessons.v[i].lessonId, existingLessons'[r][j]._id)
                 /\ body'[r].lessons.v[i].quantity > existingLessons'[r][j].spaces)
              => /\ resp'[r].status # 201 /\ orders' = orders
                 /\ pc'[r] = "done" => resp'[r].status \in {400, 500}]_vars

(***************************************************************************)
(* C21.  In a variant of POST /orders that decrements at order placement,  *)
(* a request that is answered 201 has applied the decrement of each of its *)
(* lines.  The handler of src/server.js lines 745-765 is not the           *)
(* add-to-cart variant and applies none.                                   *)
(***************************************************************************)
C21_OthersDecrement ==
  \A r \in Reqs :
    (IsOrder(r) /\ resp[r].status = 201)
      => \A i \in 1..Len(OrderLines(r)) :
           \E j \in 1..Len(log[r]) : log[r][j] = Entry("inc", i)

(***************************************************************************)
(* Vocabulary of the properties of the list and search requests.           *)
(***************************************************************************)
\* A parameter that is present and writes a number.
Numeric(x) == x.t = "str" /\ x.v # <<>> /\ \A i \in 1..Len(x.v) : x.v[i] \in Digits

\* The value of a parameter: its number, or d when absent or non-numeric.
Given(x, d) == IF Numeric(x) THEN Decimal(x.v) ELSE d

(***************************************************************************)
(* C23.  A list request that is answered 200 returns the lessons at        *)
(* positions (page-1)*limit+1 .. page*limit of the store's default         *)
(* ordering (fewer if the store ends earlier), where page is 1 and limit   *)
(* is 10 when the parameter is absent or non-numeric; the answer has at    *)
(* most limit items, and neither collection has changed.  The handler      *)
(* reads limit=0 as 10 and limit=1x as 1.                                  *)
(***************************************************************************)
C23_ListPage ==
  \A r \in Reqs :
    (kind[r] = "list" /\ Done(r) /\ resp[r].status = 200) =>
      LET page == Given(body[r].page, 1)
          limit == Given(body[r].limit, 10)
          all == FindAll(lessons)
          last == IF page * limit < Len(all) THEN page * limit ELSE Len(all)
      IN  /\ resp[r].value = SubSeq(all, (page - 1) * limit + 1, last)
          /\ Len(resp[r].value) <= limit
          /\ lessons = before[r].lessons /\ Len(orders) = before[r].orders

\* The filter that section 4.1 of the specification prescribes for a query.
PrescribedFilter(s) ==
  IF Numeric(Str(s))
  THEN {[on |-> "price", arg |-> <<Decimal(s)>>],
        [on |-> "spaces", arg |-> <<Decimal(s)>>],
        [on |-> "contains", arg |-> s]}
  ELSE IF Len(s) = 1
  THEN {[on |-> "contains", arg |-> s]}
  ELSE {[on |-> "text", arg |-> s]}

(***************************************************************************)
(* C24.  A search request is rejected with InvalidQuery exactly when its   *)
(* query is missing, empty or not a string; otherwise its filter is: for a *)
(* query that writes a number n, price = n or spaces = n or                *)
(* subject/location contains the query; for another query of one           *)
(* character, subject/location contains it; for any other query, the       *)
(* full-text match.  No search changes a collection.  The handler has no   *)
(* substring match: it uses the full-text match in all three cases.        *)
(***************************************************************************)
C24_SearchFilter ==
  \A r \in Reqs :
    kind[r] = "search" =>
      LET q == body[r].q
          valid == q.t = "str" /\ q.v # <<>>
      IN  /\ ~valid => resp[r].error = "InvalidQuery" /\ resp[r].status = 400
          /\ valid => /\ resp[r].error # "InvalidQuery"
                      /\ body[r].searchQuery = PrescribedFilter(q.v)
          /\ lessons = before[r].lessons /\ Len(orders) = before[r].orders

(***************************************************************************)
(* C22.  No request blocks: provided every store call eventually returns   *)
(* or fails, every request that has started (an order, a lesson update, a  *)
(* list, a search) eventually has its response; and no store operation is  *)
(* attempted more than DefaultRetries times: at every moment fewer than    *)
(* DefaultRetries attempts of the operation in progress have failed.       *)
(***************************************************************************)
C22_EveryRequestEnds ==
  /\ [](\A r \in Reqs : attempt[r] < DefaultRetries)
  /\ \A r \in Reqs :
       (pc[r] \notin {"idle", "done"}) ~> (pc[r] = "done" /\ resp[r] # NoResp)

\* Requests of all four kinds have ended, one of them with 500 after the last
\* allowed attempt of a store call failed, another after its calls succeeded.
C22_Witness ==
  \E r, s \in Reqs :
    /\ Done(r) /\ resp[r].status = 500 /\ attempt[r] = DefaultRetries - 1
    /\ faults = DefaultRetries
    /\ Done(s) /\ resp[s].status \in {200, 201}

\* The number of entries of request r's log that are e.
Count(r, e) == Cardinality({j \in 1..Len(log[r]) : log[r][j] = e})

(***************************************************************************)
(* C25.  For every line of every order request the store carries out the   *)
(* decrement at most once, also when an acknowledgement is lost.  The      *)
(* wrapper repeats the $inc after a failure that had been applied.         *)
(***************************************************************************)
C25_DecrementAtMostOnce ==
  \A r \in Reqs :
    IsOrder(r) =>
      \A i \in 1..Len(OrderLines(r)) : Count(r, Entry("inc", i)) <= 1

(***************************************************************************)
(* C26.  Every order request has at most one order record, also when an    *)
(* acknowledgement is lost: a request answered 201 has exactly one, under  *)
(* the identifier of the answer, and a request answered 400 or 500 has     *)
(* none.  The wrapper repeats the insert after a failure that had been     *)
(* persisted, and gives up with the record stored.                         *)
(***************************************************************************)
C26_OneOrderPerRequest ==
  /\ Len(orders) = Cardinality({r \in Reqs : Issued(r, "insert")})
  /\ \A r \in Reqs :
       IsOrder(r) =>
         /\ Count(r, Entry("insert", 0)) <= 1
         /\ resp[r].status = 201 =>
              /\ Count(r, Entry("insert", 0)) = 1
              /\ resp[r].orderId \in 1..Len(orders)
              /\ orders[resp[r].orderId].lessons = OrderLines(r)
         /\ resp[r].status \in {400, 500} => Count(r, Entry("insert", 0)) = 0

\* The sum of the quantities of the decrements in log l, of a request with
\* the lines list, that the store carried out on lesson id.
RECURSIVE AppliedTo(_, _, _)
AppliedTo(l, list, id) ==
  IF l = <<>> THEN 0
  ELSE (IF Head(l).op = "inc" /\ Denotes(list[Head(l).line].lessonId, id)
        THEN list[Head(l).line].quantity ELSE 0) + AppliedTo(Tail(l), list, id)

\* ... summed over the requests of set S.
RECURSIVE AppliedBy(_, _)
AppliedBy(S, id) ==
  IF S = {} THEN 0
  ELSE LET r == CHOOSE x \in S : TRUE
       IN  (IF IsOrder(r) THEN AppliedTo(log[r], OrderLines(r), id) ELSE 0)
             + AppliedBy(S \ {r}, id)

(***************************************************************************)
(* C27.  No decrement is lost.  With order requests that interleave in any *)
(* way (store failures and lost acknowledgements included) and no lesson   *)
(* update, every lesson's spaces is at every moment its spaces of the      *)
(* initial load minus the sum of the quantities of the decrements that the *)
(* store has carried out on it.                                            *)
(***************************************************************************)
C27_NoLostDecrement ==
  \A l \in LessonIds :
    lessons[l].spaces = before[1].lessons[l].spaces - AppliedBy(Reqs, l)

\* Two requests read the same spaces of lesson a in their lookups, and then
\* each had a decrement of a positive quantity carried out on it.
C27_Witness ==
  \E r, s \in Reqs :
    /\ r # s /\ IsOrder(r) /\ IsOrder(s)
    /\ existingLessons[r] # <<>> /\ existingLessons[r] = existingLessons[s]
    /\ AppliedTo(log[r], OrderLines(r), IdA) > 0
    /\ AppliedTo(log[s], OrderLines(s), IdA) > 0
    /\ lessons[IdA].spaces
         = before[1].lessons[IdA].spaces
             - AppliedTo(log[r], OrderLines(r), IdA)
             - AppliedTo(log[s], OrderLines(s), IdA)

\* Line `line` fails the sufficiency check against the documents snap.
ShortIn(snap, line) ==
  ~\E j \in 1..Len(snap) :
      snap[j]._id = line.lessonId /\ snap[j].spaces >= line.quantity

(***************************************************************************)
(* C28.  The sufficiency check of a line is made against the documents     *)
(* that the request's batch lookup returned.  Once the lookup has          *)
(* returned, these documents never change for the request.  In the step    *)
(* that reaches line i (the lookup's return for line 1, the return of the  *)
(* decrement of line i-1 otherwise), the request goes on to the decrement  *)
(* of line i exactly when those documents hold enough spaces for it, and   *)
(* is answered InsufficientSpaces otherwise, whatever the store holds at   *)
(* that moment; and a decrement that returns has subtracted the line's     *)
(* quantity from whatever the store held.                                  *)
(***************************************************************************)
C28_CheckAgainstLookup ==
  [][\A r \in Reqs :
       (IsOrder(r) /\ pc[r] \in {"lookup", "decrement"}
        /\ Len(log'[r]) > Len(log[r])) =>
         LET list == body[r].lessons.v
             snap == existingLessons'[r]
             i == IF pc[r] = "lookup" THEN 1 ELSE idx[r] + 1
         IN  /\ pc[r] = "decrement" =>
                  /\ snap = existingLessons[r]
                  /\ \A l \in LessonIds :
                       lessons'[l].spaces
                         = lessons[l].spaces
                             - (IF Denotes(list[idx[r]].lessonId, l)
                                THEN list[idx[r]].quantity ELSE 0)
             /\ (Len(snap) = Len(list) /\ i <= Len(list)) =>
                  /\ ~ShortIn(snap, list[i]) => pc'[r] = "decrement" /\ idx'[r] = i
                  /\ ShortIn(snap, list[i]) =>
                       /\ pc'[r] = "done"
                       /\ resp'[r].error = "InsufficientSpaces"
                       /\ resp'[r].lessonId = list[i].lessonId]_vars

\* A request whose lookup found 1 seat in lesson a took one seat of it and was
\* answered 201, and the lesson holds -1: the store held 0 at the decrement.
C28_Witness ==
  \E r \in Reqs :
    /\ IsOrder(r) /\ resp[r].status = 201
    /\ OrderLines(r) = <<Line(WireA, 1)>>
    /\ existingLessons[r] = <<[_id |-> IdA, spaces |-> 1]>>
    /\ lessons[IdA].spaces = -1

(***************************************************************************)
(* C29.  Every POST /orders request is answered exactly once.  A handler   *)
(* has sent a response exactly when it has ended; the response is one of   *)
(* 201, 400 and 500; once sent it never changes and is never sent again,   *)
(* and the request issues no store call after it; and a handler that has   *)
(* not ended awaits a store call, whose return leads it on.                *)
(***************************************************************************)
C29_AnsweredOnce ==
  [][\A r \in Reqs :
       IsOrder(r)' =>
         /\ (resp'[r] # NoResp) <=> (pc'[r] = "done")
         /\ resp'[r] # NoResp => resp'[r].status \in {201, 400, 500}
         /\ resp[r] # NoResp =>
              /\ resp'[r] = resp[r]
              /\ log'[r] = log[r] /\ pc'[r] = pc[r] /\ attempt'[r] = attempt[r]
         /\ pc'[r] # "done" =>
              /\ pc'[r] \in {"lookup", "decrement", "insert"}
              /\ (ENABLED (LookupOk(r) \/ DecrementOk(r) \/ InsertOk(r)))']_vars

\* One request was answered 400 on its second line and has its lookup and one
\* decrement in its log; another, answered 500, its lookup only.
C29_Witness ==
  \E r, s \in Reqs :
    /\ IsOrder(r) /\ Done(r) /\ resp[r].error = "InsufficientSpaces"
    /\ log[r] = <<Entry("find", 0), Entry("inc", 1)>>
    /\ IsOrder(s) /\ Done(s) /\ resp[s].status = 500
    /\ log[s] = <<Entry("find", 0)>>

(***************************************************************************)
(* C30.  executeWithRetry called with retries <= 0 never invokes the       *)
(* operation, waits for no delay, and completes normally with no result    *)
(* (undefined) instead of raising a failure: at every moment after the     *)
(* call no invocation and no wait has been recorded, and the call has      *)
(* settled as returned with no value.                                      *)
(***************************************************************************)
C30_NoAttemptsReturnsUndefined ==
  \A r \in Reqs :
    (kind[r] = "retry" /\ body[r].retries <= 0) =>
      /\ Invocations(r) = <<>>
      /\ Waits(r) = <<>>
      /\ log[r] = <<>>
      /\ Done(r)
      /\ resp[r].error = "returned"
      /\ resp[r].value = <<>>

\* A call with a negative number of retries has completed.
C30_Witness ==
  /\ kind[Caller] = "retry" /\ body[Caller].retries < 0
  /\ Done(Caller) /\ resp[Caller].error = "returned"

====
